---- MODULE Spec2Model ----
(***************************************************************************)
(* Process supervision in stream.py: RTSPStreamer.start / stop / wait and  *)
(* main() with its SIGINT/SIGTERM handler.                                 *)
(*                                                                         *)
(* The Python interpreter runs one thread.  A signal handler runs on top   *)
(* of whatever that thread was doing, between two bytecodes, so the        *)
(* control state is a stack of frames: the bottom frame is main(), every   *)
(* delivered signal pushes one signal_handler frame.  Only the top frame   *)
(* runs.  The handler ends in sys.exit(0), whose SystemExit is caught by   *)
(* no "except Exception" of the program, so an interrupted frame never     *)
(* resumes.                                                                *)
(*                                                                         *)
(* Time is counted in tenths of a second.                                  *)
(***************************************************************************)
EXTENDS Integers, Sequences, FiniteSets, TLC

\* ------------------------------------------------------------------ bounds
\* signals delivered in one run, in Spec and in LiveSpec
MaxSignals == 2
MaxLiveSignals == 1
\* signals delivered in one run of FaultSpec
MaxFaultSignals == 1

\* ------------------------------------------------------- program constants
PortTimeout == 100
PollSleep == 2
ConnectTimeout == 5

Procs == {"mediamtx", "rpicam", "ffmpeg"}

\* the four fixed candidates of _find_mediamtx, in list order; 5 is `which`
SearchPaths == <<1, 2, 3, 4>>
WhichResult == 5

VARIABLES
    stack,       \* frames of the interpreter's single thread, main() first
    proc,        \* OS state of each child: "none", "alive", "exited"
    handle,      \* self.mediamtx_proc / self.rpicam_proc / self.ffmpeg_proc set
    running,     \* self.running
    pipe,        \* supervisor's reference to rpicam_proc.stdout
    elapsed,     \* inside _wait_for_port: time.time() since the deadline was set
    fsys,        \* each candidate of search_paths: "missing", "noexec", "exec"
    onPath,      \* `which mediamtx` returns 0
    whichRan,    \* _find_mediamtx has run `which mediamtx`
    found,       \* value returned by _find_mediamtx (0 is None)
    portOk,      \* _wait_for_port returned True
    portTimedOut,\* _wait_for_port returned False
    startResult, \* "none" until start() returns, then "true" / "false"
    exited,      \* the interpreter has exited
    exitStatus,  \* its exit status
    sigCount,    \* signals delivered so far
    stopCalls,   \* stop() invocations, by caller
    stopsReturned, \* stop() invocations that ran to their last line
    waitReturned,  \* wait() has returned
    log          \* requests sent to children: <<"terminate"|"kill", p>>

vars == <<stack, proc, handle, running, pipe, elapsed, fsys, onPath, whichRan,
          found, portOk, portTimedOut, startResult, exited, exitStatus,
          sigCount, stopCalls, stopsReturned, waitReturned, log>>

\* ----------------------------------------------------------------- helpers
Top == stack[Len(stack)]

SetTop(f) == [stack EXCEPT ![Len(stack)] = f]

\* fn, pc, k (loop position) and ret (caller of stop) are the frame's control
\* state; sent (children this stop() call has sent SIGTERM to) and seen
\* (children that had exited when this wait() iteration began) are history
Frame(fn, pc, k, ret) ==
    [fn |-> fn, pc |-> pc, k |-> k, ret |-> ret, sent |-> <<>>, seen |-> {}]

At(pc) == ~exited /\ Top.pc = pc

Goto(pc) == SetTop([Top EXCEPT !.pc = pc])

\* a stop() call made by the running frame; ret names the caller
CallStop(ret) == SetTop([Top EXCEPT !.pc = "stop_entry", !.k = 0, !.ret = ret, !.sent = <<>>])

Alive == {p \in Procs : proc[p] = "alive"}

\* proc.poll() is None, for a handle that is set
PollIsNone(p) == proc[p] = "alive"

\* ------------------------------------------------------ executable discovery
\* what a candidate path can be on disk
PathStates == {"missing", "noexec", "exec"}

\* _find_mediamtx testing path.exists() only
IsExecutable_ExistsOnly(fs, c) == fs[c] # "missing"

\* path.exists() and os.access(path, os.X_OK)
IsExecutable(fs, c) == fs[c] # "missing" /\ fs[c] = "exec"

RECURSIVE FirstExecutable(_, _)
\* the for loop of _find_mediamtx over search_paths, from position i
FirstExecutable(i, fs) ==
    IF i > Len(SearchPaths) THEN 0
    ELSE IF IsExecutable(fs, SearchPaths[i]) THEN SearchPaths[i]
    ELSE FirstExecutable(i + 1, fs)

\* _find_mediamtx: first candidate, else the result of `which`, else None (0)
FindMediamtxResult(fs, which) ==
    IF FirstExecutable(1, fs) # 0 THEN FirstExecutable(1, fs)
    ELSE IF which THEN WhichResult
    ELSE 0

\* `which` is run only when the loop over search_paths returned nothing
WhichIsRun(fs) == FirstExecutable(1, fs) = 0

\* the installations the supervisor is started on: nothing installed; a copy
\* in the user's home directory only; a bundled file that is not executable
\* and a copy on PATH
Installations ==
    { [fs |-> [c \in 1..4 |-> "missing"], which |-> FALSE],
      [fs |-> [c \in 1..4 |-> IF c = 4 THEN "exec" ELSE "missing"], which |-> FALSE],
      [fs |-> [c \in 1..4 |-> IF c = 1 THEN "noexec" ELSE "missing"], which |-> TRUE] }

\* every state of the four candidates and of PATH
AllInstallations == [fs : [1..4 -> PathStates], which : BOOLEAN]

\* ----------------------------------------------------------------- Init
\* the state after RTSPStreamer(config) and signal.signal(...), on one of insts
InitOn(insts) ==
    /\ stack = <<Frame("main", "kill_existing", 0, "none")>>
    /\ proc = [p \in Procs |-> "none"]
    /\ handle = [p \in Procs |-> FALSE]
    /\ running = FALSE
    /\ pipe = "none"
    /\ elapsed = 0
    /\ \E inst \in insts : fsys = inst.fs /\ onPath = inst.which
    /\ whichRan = FALSE
    /\ found = 0
    /\ portOk = FALSE
    /\ portTimedOut = FALSE
    /\ startResult = "none"
    /\ exited = FALSE
    /\ exitStatus = 0
    /\ sigCount = 0
    /\ stopCalls = [c \in {"start", "main", "handler"} |-> 0]
    /\ stopsReturned = 0
    /\ waitReturned = FALSE
    /\ log = <<>>

Init == InitOn(Installations)

\* ------------------------------------------------------------------ start()
\* start(): self._kill_existing_processes(); pkill acts on processes by name
\* before any child of this supervisor exists
KillExisting ==
    /\ At("kill_existing")
    /\ stack' = Goto("find_mediamtx")
    /\ UNCHANGED <<proc, handle, running, pipe, elapsed, fsys, onPath, whichRan, found,
                   portOk, portTimedOut, startResult, exited, exitStatus, sigCount,
                   stopCalls, stopsReturned, waitReturned, log>>

\* _start_mediamtx: mediamtx_path = self._find_mediamtx(); None returns False
FindMediamtx ==
    /\ At("find_mediamtx")
    /\ found' = FindMediamtxResult(fsys, onPath)
    /\ whichRan' = WhichIsRun(fsys)
    /\ stack' = Goto(IF found' = 0 THEN "start_ret_false" ELSE "popen_mediamtx")
    /\ UNCHANGED <<proc, handle, running, pipe, elapsed, fsys, onPath,
                   portOk, portTimedOut, startResult, exited, exitStatus, sigCount,
                   stopCalls, stopsReturned, waitReturned, log>>

\* subprocess.Popen(cmd) for child p: either it raises and no child exists, or
\* the child runs; the handle is stored by the next bytecode (StoreHandle)
Popen(p, pcAt, pcOk, pcErr) ==
    /\ At(pcAt)
    /\ \E ok \in BOOLEAN :
          IF ok
          THEN /\ proc' = [proc EXCEPT ![p] = "alive"]
               /\ stack' = Goto(pcOk)
          ELSE /\ proc' = proc
               /\ stack' = pcErr
    /\ UNCHANGED <<handle, running, pipe, elapsed, fsys, onPath, whichRan, found,
                   portOk, portTimedOut, startResult, exited, exitStatus, sigCount,
                   stopCalls, stopsReturned, waitReturned, log>>

\* the assignment self.<p>_proc = <Popen object>
StoreHandle(p, pcAt, pcNext) ==
    /\ At(pcAt)
    /\ handle' = [handle EXCEPT ![p] = TRUE]
    /\ pipe' = IF p = "rpicam" THEN "open" ELSE pipe
    /\ elapsed' = IF p = "mediamtx" THEN 0 ELSE elapsed
    /\ stack' = Goto(pcNext)
    /\ UNCHANGED <<proc, running, fsys, onPath, whichRan, found,
                   portOk, portTimedOut, startResult, exited, exitStatus, sigCount,
                   stopCalls, stopsReturned, waitReturned, log>>

PopenMediamtx == Popen("mediamtx", "popen_mediamtx", "store_mediamtx", Goto("start_ret_false"))

\* _start_mediamtx returning True without waiting for the port
StoreMediamtx_NoPortWait == StoreHandle("mediamtx", "store_mediamtx", "popen_rpicam")

\* self.mediamtx_proc = ..., then self._wait_for_port("127.0.0.1", port)
StoreMediamtx == StoreHandle("mediamtx", "store_mediamtx", "wait_port")

\* _is_port_open: the results socket.create_connection can give
IsPortOpen == IF proc["mediamtx"] = "alive" THEN BOOLEAN ELSE {FALSE}

\* _wait_for_port without a deadline: while True
PollContinues_Forever(t) == TRUE

\* _wait_for_port: while time.time() < deadline
PollContinues(t) == t < PortTimeout

\* start() ignoring the result of _start_mediamtx
AfterStartMediamtx_Ignored(ok) == "popen_rpicam"

\* start(): if not self._start_mediamtx(): return False
AfterStartMediamtx(ok) == IF ok THEN "popen_rpicam" ELSE "start_ret_false"

\* one iteration of the while loop of _wait_for_port, or its exit
WaitForPort ==
    /\ At("wait_port")
    /\ IF PollContinues(elapsed)
       THEN \E open \in IsPortOpen :
               IF open
               THEN /\ portOk' = TRUE
                    /\ stack' = Goto(AfterStartMediamtx(TRUE))
                    /\ elapsed' = 0
                    /\ UNCHANGED portTimedOut
               ELSE /\ \E d \in {0, ConnectTimeout} : elapsed' = elapsed + d + PollSleep
                    /\ UNCHANGED <<stack, portOk, portTimedOut>>
       ELSE /\ portTimedOut' = TRUE
            /\ stack' = Goto(AfterStartMediamtx(FALSE))
            /\ elapsed' = 0
            /\ UNCHANGED portOk
    /\ UNCHANGED <<proc, handle, running, pipe, fsys, onPath, whichRan, found,
                   startResult, exited, exitStatus, sigCount,
                   stopCalls, stopsReturned, waitReturned, log>>

\* _start_rpicam: a Popen that raises returns False, and start() calls stop()
PopenRpicam == Popen("rpicam", "popen_rpicam", "store_rpicam", CallStop("start"))

StoreRpicam == StoreHandle("rpicam", "store_rpicam", "popen_ffmpeg")

PopenFfmpeg == Popen("ffmpeg", "popen_ffmpeg", "store_ffmpeg", CallStop("start"))

\* _start_rpicam without self.rpicam_proc.stdout.close()
StoreFfmpeg_NoClose == StoreHandle("ffmpeg", "store_ffmpeg", "grace")

StoreFfmpeg == StoreHandle("ffmpeg", "store_ffmpeg", "close_pipe")

\* self.rpicam_proc.stdout.close()
ClosePipe ==
    /\ At("close_pipe")
    /\ pipe' = "closed"
    /\ stack' = Goto("grace")
    /\ UNCHANGED <<proc, handle, running, elapsed, fsys, onPath, whichRan, found,
                   portOk, portTimedOut, startResult, exited, exitStatus, sigCount,
                   stopCalls, stopsReturned, waitReturned, log>>

\* time.sleep(2); if self.rpicam_proc.poll() is not None: return False
Grace ==
    /\ At("grace")
    /\ stack' = IF PollIsNone("rpicam") THEN Goto("set_running") ELSE CallStop("start")
    /\ UNCHANGED <<proc, handle, running, pipe, elapsed, fsys, onPath, whichRan, found,
                   portOk, portTimedOut, startResult, exited, exitStatus, sigCount,
                   stopCalls, stopsReturned, waitReturned, log>>

\* self.running = True
SetRunning ==
    /\ At("set_running")
    /\ running' = TRUE
    /\ stack' = Goto("start_ret_true")
    /\ UNCHANGED <<proc, handle, pipe, elapsed, fsys, onPath, whichRan, found,
                   portOk, portTimedOut, startResult, exited, exitStatus, sigCount,
                   stopCalls, stopsReturned, waitReturned, log>>

\* return True, and main() goes on to streamer.wait()
StartReturnTrue ==
    /\ At("start_ret_true")
    /\ startResult' = "true"
    /\ stack' = SetTop([Top EXCEPT !.pc = "wait", !.k = 0])
    /\ UNCHANGED <<proc, handle, running, pipe, elapsed, fsys, onPath, whichRan, found,
                   portOk, portTimedOut, exited, exitStatus, sigCount,
                   stopCalls, stopsReturned, waitReturned, log>>

\* return False, and main() goes on to sys.exit(1)
StartReturnFalse ==
    /\ At("start_ret_false")
    /\ startResult' = "false"
    /\ stack' = Goto("exit1")
    /\ UNCHANGED <<proc, handle, running, pipe, elapsed, fsys, onPath, whichRan, found,
                   portOk, portTimedOut, exited, exitStatus, sigCount,
                   stopCalls, stopsReturned, waitReturned, log>>

\* main(): print("Failed to start streaming"); sys.exit(1)
ExitFailed ==
    /\ At("exit1")
    /\ exited' = TRUE
    /\ exitStatus' = 1
    /\ UNCHANGED <<stack, proc, handle, running, pipe, elapsed, fsys, onPath, whichRan, found,
                   portOk, portTimedOut, startResult, sigCount,
                   stopCalls, stopsReturned, waitReturned, log>>

\* ------------------------------------------------------------------- stop()
\* stop() with its list in startup order
StopOrder_Forward == <<"mediamtx", "rpicam", "ffmpeg">>

\* stop() with the server left out of its list
StopOrder_NoServer == <<"ffmpeg", "rpicam">>

\* the list stop() iterates: ffmpeg_proc, rpicam_proc, mediamtx_proc
StopOrder == <<"ffmpeg", "rpicam", "mediamtx">>

\* stop() without the liveness test: if proc
ShouldTerminate_NoPoll(p) == handle[p]

\* if proc and proc.poll() is None
ShouldTerminate(p) == handle[p] /\ PollIsNone(p)

\* print("\nStopping stream..."); self.running = False; the list is built
StopEntry ==
    /\ At("stop_entry")
    /\ running' = FALSE
    /\ stopCalls' = [stopCalls EXCEPT ![Top.ret] = @ + 1]
    /\ stack' = SetTop([Top EXCEPT !.pc = "stop_check", !.k = 1])
    /\ UNCHANGED <<proc, handle, pipe, elapsed, fsys, onPath, whichRan, found,
                   portOk, portTimedOut, startResult, exited, exitStatus, sigCount,
                   stopsReturned, waitReturned, log>>

\* stop() force-killing right after proc.terminate(), without the wait
AfterTerminate_KillAtOnce == "stop_kill"

\* proc.terminate() is followed by proc.wait(timeout=5)
AfterTerminate == "stop_wait"

\* loop head for entry k of the list: proc.terminate() when the child is alive
StopCheck ==
    /\ At("stop_check")
    /\ Top.k <= Len(StopOrder)
    /\ LET p == StopOrder[Top.k] IN
          IF ShouldTerminate(p)
          THEN /\ log' = Append(log, <<"terminate", p>>)
               /\ stack' = SetTop([Top EXCEPT !.pc = AfterTerminate, !.sent = Append(@, p)])
          ELSE /\ log' = log
               /\ stack' = SetTop([Top EXCEPT !.k = @ + 1])
    /\ UNCHANGED <<proc, handle, running, pipe, elapsed, fsys, onPath, whichRan, found,
                   portOk, portTimedOut, startResult, exited, exitStatus, sigCount,
                   stopCalls, stopsReturned, waitReturned>>

\* stop() waiting without a timeout: proc.wait()
AfterTimeout_WaitAgain == "stop_wait"

\* except subprocess.TimeoutExpired: control goes to proc.kill()
AfterTimeout == "stop_kill"

\* proc.wait(timeout=5): returns when the child has exited, else TimeoutExpired
StopWait ==
    /\ At("stop_wait")
    /\ stack' = IF PollIsNone(StopOrder[Top.k])
                THEN Goto(AfterTimeout)
                ELSE SetTop([Top EXCEPT !.pc = "stop_check", !.k = @ + 1])
    /\ UNCHANGED <<proc, handle, running, pipe, elapsed, fsys, onPath, whichRan, found,
                   portOk, portTimedOut, startResult, exited, exitStatus, sigCount,
                   stopCalls, stopsReturned, waitReturned, log>>

\* except subprocess.TimeoutExpired: proc.kill(); Popen.kill polls first and
\* sends SIGKILL only to a child that has not exited
StopKill ==
    /\ At("stop_kill")
    /\ LET p == StopOrder[Top.k] IN
          IF PollIsNone(p)
          THEN /\ log' = Append(log, <<"kill", p>>)
               /\ proc' = [proc EXCEPT ![p] = "exited"]
          ELSE UNCHANGED <<log, proc>>
    /\ stack' = SetTop([Top EXCEPT !.pc = "stop_check", !.k = @ + 1])
    /\ UNCHANGED <<handle, running, pipe, elapsed, fsys, onPath, whichRan, found,
                   portOk, portTimedOut, startResult, exited, exitStatus, sigCount,
                   stopCalls, stopsReturned, waitReturned>>

\* print("Stream stopped") and return to the caller: start() goes on to
\* return False, signal_handler to sys.exit(0), main() to its end
StopReturn ==
    /\ At("stop_check")
    /\ Top.k > Len(StopOrder)
    /\ stopsReturned' = stopsReturned + 1
    /\ stack' = Goto(CASE Top.ret = "start" -> "start_ret_false"
                       [] Top.ret = "handler" -> "handler_exit"
                       [] OTHER -> "main_end")
    /\ UNCHANGED <<proc, handle, running, pipe, elapsed, fsys, onPath, whichRan, found,
                   portOk, portTimedOut, startResult, exited, exitStatus, sigCount,
                   stopCalls, waitReturned, log>>

\* ------------------------------------------------------------------- wait()
\* the three checks of one iteration of wait(), in their order
WaitOrder == <<"ffmpeg", "rpicam", "mediamtx">>

\* wait() watching the relay only
WaitBreaks_FfmpegOnly(p) == p = "ffmpeg" /\ handle[p] /\ ~PollIsNone(p)

\* hasattr(self, 'ffmpeg_proc') / self.rpicam_proc / self.mediamtx_proc,
\* and .poll() is not None
WaitBreaks(p) == handle[p] /\ ~PollIsNone(p)

\* main() ending after streamer.wait() without streamer.stop()
AfterWait_NoStop == Goto("main_end")

\* main(): streamer.wait() is followed by streamer.stop()
AfterWait == CallStop("main")

\* while self.running
WaitLoopHead ==
    /\ At("wait")
    /\ Top.k = 0
    /\ IF running
       THEN /\ stack' = SetTop([Top EXCEPT !.k = 1,
                                          !.seen = {p \in Procs : handle[p] /\ proc[p] = "exited"}])
            /\ UNCHANGED waitReturned
       ELSE /\ stack' = AfterWait
            /\ waitReturned' = TRUE
    /\ UNCHANGED <<proc, handle, running, pipe, elapsed, fsys, onPath, whichRan, found,
                   portOk, portTimedOut, startResult, exited, exitStatus, sigCount,
                   stopCalls, stopsReturned, log>>

\* check k of the loop body: break when the child has exited; after the last
\* check, time.sleep(1) and back to the loop head
WaitPoll ==
    /\ At("wait")
    /\ Top.k >= 1
    /\ IF WaitBreaks(WaitOrder[Top.k])
       THEN /\ stack' = AfterWait
            /\ waitReturned' = TRUE
       ELSE /\ stack' = SetTop([Top EXCEPT !.k = IF @ = Len(WaitOrder) THEN 0 ELSE @ + 1])
            /\ UNCHANGED waitReturned
    /\ UNCHANGED <<proc, handle, running, pipe, elapsed, fsys, onPath, whichRan, found,
                   portOk, portTimedOut, startResult, exited, exitStatus, sigCount,
                   stopCalls, stopsReturned, log>>

\* ------------------------------------------------------------------- main()
\* main() returns after its streamer.stop(): exit status 0
MainEnd ==
    /\ At("main_end")
    /\ exited' = TRUE
    /\ exitStatus' = 0
    /\ UNCHANGED <<stack, proc, handle, running, pipe, elapsed, fsys, onPath, whichRan, found,
                   portOk, portTimedOut, startResult, sigCount,
                   stopCalls, stopsReturned, waitReturned, log>>

\* the status signal_handler passes to sys.exit
HandlerExitStatus == 0

\* SIGINT or SIGTERM is delivered: signal_handler(sig, frame) starts on top of
\* the running frame with streamer.stop()
Signal(max) ==
    /\ ~exited
    /\ sigCount < max
    /\ sigCount' = sigCount + 1
    /\ stack' = Append(stack, Frame("handler", "stop_entry", 0, "handler"))
    /\ elapsed' = 0   \* the clock of an interrupted _wait_for_port is not followed
    /\ UNCHANGED <<proc, handle, running, pipe, fsys, onPath, whichRan, found,
                   portOk, portTimedOut, startResult, exited, exitStatus,
                   stopCalls, stopsReturned, waitReturned, log>>

\* signal_handler: sys.exit(0); SystemExit unwinds every frame
HandlerExit ==
    /\ At("handler_exit")
    /\ exited' = TRUE
    /\ exitStatus' = HandlerExitStatus
    /\ UNCHANGED <<stack, proc, handle, running, pipe, elapsed, fsys, onPath, whichRan, found,
                   portOk, portTimedOut, startResult, sigCount,
                   stopCalls, stopsReturned, waitReturned, log>>

\* -------------------------------------------------------------- environment
\* a child exits on its own (crash, end of input, or reaction to SIGTERM)
ChildExit ==
    /\ ~exited
    /\ \E p \in Alive : proc' = [proc EXCEPT ![p] = "exited"]
    /\ UNCHANGED <<stack, handle, running, pipe, elapsed, fsys, onPath, whichRan, found,
                   portOk, portTimedOut, startResult, exited, exitStatus, sigCount,
                   stopCalls, stopsReturned, waitReturned, log>>

\* ------------------------------------------------------------ specification
\* the steps of the interpreter's thread
\* the steps of main() and of what it calls
MainStep ==
    \/ KillExisting \/ FindMediamtx \/ PopenMediamtx \/ StoreMediamtx \/ WaitForPort
    \/ PopenRpicam \/ StoreRpicam \/ PopenFfmpeg \/ StoreFfmpeg \/ ClosePipe \/ Grace
    \/ SetRunning \/ StartReturnTrue \/ StartReturnFalse \/ ExitFailed
    \/ StopEntry \/ StopCheck \/ StopWait \/ StopKill \/ StopReturn
    \/ WaitLoopHead \/ WaitPoll \/ MainEnd

Step == MainStep \/ HandlerExit

Next == Step \/ Signal(MaxSignals) \/ ChildExit

Spec == Init /\ [][Next]_vars

NextLive == Step \/ Signal(MaxLiveSignals) \/ ChildExit

\* the interpreter keeps executing its thread until it exits
LiveSpec == Init /\ [][NextLive]_vars /\ WF_vars(Step)

TypeOK ==
    /\ proc \in [Procs -> {"none", "alive", "exited"}]
    /\ handle \in [Procs -> BOOLEAN]
    /\ running \in BOOLEAN
    /\ pipe \in {"none", "open", "closed"}
    /\ Len(stack) <= sigCount + 1
    /\ sigCount \in 0..MaxSignals
    /\ exitStatus \in {0, 1}

\* ------------------------------------------------- failing calls in stop()
\* proc.terminate() raises an Exception: "except Exception: pass", next entry
StopCheckErr ==
    /\ At("stop_check")
    /\ Top.k <= Len(StopOrder)
    /\ ShouldTerminate(StopOrder[Top.k])
    /\ stack' = SetTop([Top EXCEPT !.k = @ + 1])
    /\ UNCHANGED <<proc, handle, running, pipe, elapsed, fsys, onPath, whichRan, found,
                   portOk, portTimedOut, startResult, exited, exitStatus, sigCount,
                   stopCalls, stopsReturned, waitReturned, log>>

\* proc.wait(timeout=5) raises an Exception other than TimeoutExpired:
\* "except Exception: pass", next entry
StopWaitErr ==
    /\ At("stop_wait")
    /\ stack' = SetTop([Top EXCEPT !.pc = "stop_check", !.k = @ + 1])
    /\ UNCHANGED <<proc, handle, running, pipe, elapsed, fsys, onPath, whichRan, found,
                   portOk, portTimedOut, startResult, exited, exitStatus, sigCount,
                   stopCalls, stopsReturned, waitReturned, log>>

\* proc.kill() raises inside the "except subprocess.TimeoutExpired" clause: no
\* clause of the same try statement catches it, the exception leaves stop()
StopKillErr ==
    /\ At("stop_kill")
    /\ PollIsNone(StopOrder[Top.k])
    /\ stack' = Goto("stop_raised")
    /\ UNCHANGED <<proc, handle, running, pipe, elapsed, fsys, onPath, whichRan, found,
                   portOk, portTimedOut, startResult, exited, exitStatus, sigCount,
                   stopCalls, stopsReturned, waitReturned, log>>

\* an exception leaves signal_handler and is raised at the point where frame
\* g was interrupted: the frames g can continue as (pc "raised": not caught)
CatchOutcomes(g) ==
    CASE g.pc \in {"kill_existing", "find_mediamtx", "wait_port"} ->
            \* inside the try of subprocess.run / _is_port_open, or outside it
            {g, [g EXCEPT !.pc = "raised"]}
      [] g.pc \in {"popen_mediamtx", "store_mediamtx"} ->
            \* _start_mediamtx: except Exception: return False
            {[g EXCEPT !.pc = "start_ret_false"]}
      [] g.pc \in {"popen_rpicam", "store_rpicam", "popen_ffmpeg", "store_ffmpeg",
                   "close_pipe"} ->
            \* _start_rpicam: except Exception: return False; start(): self.stop()
            {[g EXCEPT !.pc = "stop_entry", !.k = 0, !.ret = "start", !.sent = <<>>]}
      [] g.pc = "stop_wait" ->
            \* stop(): except Exception: pass
            {[g EXCEPT !.pc = "stop_check", !.k = @ + 1]}
      [] OTHER -> {[g EXCEPT !.pc = "raised"]}

\* an uncaught exception leaves the top frame: out of main() the interpreter
\* prints the traceback and exits with status 1; out of signal_handler it is
\* raised in the interrupted frame
Unwind ==
    /\ At("stop_raised") \/ At("raised")
    /\ IF Len(stack) = 1
       THEN /\ exited' = TRUE
            /\ exitStatus' = 1
            /\ UNCHANGED stack
       ELSE /\ \E g \in CatchOutcomes(stack[Len(stack) - 1]) :
                  stack' = Append(SubSeq(stack, 1, Len(stack) - 2), g)
            /\ UNCHANGED <<exited, exitStatus>>
    /\ UNCHANGED <<proc, handle, running, pipe, elapsed, fsys, onPath, whichRan, found,
                   portOk, portTimedOut, startResult, sigCount,
                   stopCalls, stopsReturned, waitReturned, log>>

NextFault ==
    \/ Step \/ Signal(MaxFaultSignals) \/ ChildExit
    \/ StopCheckErr \/ StopWaitErr \/ StopKillErr \/ Unwind

NextFind == MainStep \/ ChildExit

\* a run without signals, on every installation
FindSpec == InitOn(AllInstallations) /\ [][NextFind]_vars

\* the program in an environment where the calls stop() makes on a child raise
FaultSpec == Init /\ [][NextFault]_vars

\* ---------------------------------------------------------------- properties
\* children of this supervisor that stop() would examine and that are alive
TrackedAlive == {p \in Procs : handle[p] /\ proc[p] = "alive"}

\* the main() frame is inside the loop of wait()
InWait == stack[1].pc = "wait"

\* C1: when start() has returned False, no process spawned by the supervisor
\* is alive, whichever failure branch was taken
C1_FailedStartLeavesNothing == startResult = "false" => Alive = {}

\* C2: in a run in which signals were delivered, stop() is invoked by the
\* cancellation path exactly once, however many signals arrived
C2_StopOncePerCancellation ==
    /\ stopCalls["handler"] <= 1
    /\ (exited /\ sigCount >= 1) => stopCalls["handler"] = 1

\* C3: an exit caused by a signal has a non-zero status when the signal came
\* before start() returned True, and status 0 when it came after
C3_ExitStatusOnSignal ==
    (exited /\ sigCount >= 1) =>
        IF startResult = "true" THEN exitStatus = 0 ELSE exitStatus # 0

\* C4: once a stop() has returned, a further stop() sends no terminate or kill
\* request, and after every return of stop() no tracked process is alive
C4_StopIdempotent ==
    [][stopsReturned' >= 1 =>
          /\ TrackedAlive' = {}
          /\ stopsReturned >= 1 => log' = log]_vars

\* a second stop() has returned, called by a handler that was entered right
\* after the first stop() had returned and had terminated a child
C4_Witness ==
    /\ stopsReturned = 2
    /\ Len(stack) >= 2
    /\ Top.pc = "handler_exit"
    /\ stack[Len(stack) - 1].pc \in {"handler_exit", "start_ret_false", "main_end"}
    /\ log # <<>>

\* position of each child in the startup order of start()
StartupRank == [mediamtx |-> 1, rpicam |-> 2, ffmpeg |-> 3]

\* C5: one stop() call sends its terminate requests in reverse startup order,
\* and when it sends one to a child, no tracked child started after that one
\* is still alive
C5_ReverseOrderShutdown ==
    /\ \A n \in 1..Len(stack) : \A i, j \in 1..Len(stack[n].sent) :
          i < j => StartupRank[stack[n].sent[i]] > StartupRank[stack[n].sent[j]]
    /\ \A n \in 1..Len(stack) :
          stack[n].pc = "stop_wait" =>
              \A q \in Procs :
                  StartupRank[q] > StartupRank[stack[n].sent[Len(stack[n].sent)]]
                      => q \notin TrackedAlive

\* one stop() call has sent terminate to all three children
C5_Witness == \E n \in 1..Len(stack) : stack[n].sent = <<"ffmpeg", "rpicam", "mediamtx">>

\* C6: running is True only when all three children have been spawned and
\* recorded and the readiness poll has seen the port connectable
C6_RunningOnlyAfterReady ==
    (running \/ startResult = "true") =>
        /\ \A p \in Procs : proc[p] # "none" /\ handle[p]
        /\ portOk
        /\ ~portTimedOut

\* start() has returned True
C6_Witness == running /\ startResult = "true" /\ InWait

\* C7: a tracked child that had exited when an iteration of wait() began ends
\* the loop within that iteration, and an exit of any child during Running
\* leads to wait() returning, unless a signal handler ends the program first
C7_WaitReturnsOnChildExit ==
    /\ [][(At("wait") /\ Top.k # 0 /\ At("wait")' /\ Top'.k = 0) => Top.seen = {}]_vars
    /\ \A p \in Procs :
          (InWait /\ running /\ proc[p] = "exited") ~> (waitReturned \/ exited)

\* wait() has returned because the capture process exited
C7_Witness ==
    /\ waitReturned
    /\ sigCount = 0
    /\ proc = [mediamtx |-> "alive", rpicam |-> "exited", ffmpeg |-> "alive"]

\* C8: an exit of a child during Running leads to a state where stop() has
\* run to its end and no child is alive
C8_ChildExitLeadsToShutdown ==
    \A p \in Procs :
        (InWait /\ running /\ proc[p] = "exited") ~> (stopsReturned >= 1 /\ Alive = {})

\* main()'s stop() after wait() has terminated the children that were left
C8_Witness ==
    /\ waitReturned
    /\ stopCalls["main"] = 1
    /\ stopsReturned = 1
    /\ sigCount = 0
    /\ Alive = {}
    /\ Len(log) >= 2

\* C9: the readiness poll ends once its deadline has passed, with at most one
\* connection attempt and one sleep of overshoot, and after a timeout start()
\* spawns neither capture nor relay and does not return True
C9_PortWaitBounded ==
    /\ elapsed < PortTimeout + ConnectTimeout + PollSleep
    /\ portTimedOut =>
          /\ proc["rpicam"] = "none" /\ proc["ffmpeg"] = "none"
          /\ ~running
          /\ startResult # "true"
          /\ ~portOk

\* the poll has timed out and start() has returned False
C9_Witness == portTimedOut /\ startResult = "false"

\* C10: when the program has exited after a signal, no process it spawned
\* is alive
C10_SignalWindsDownEverything == (exited /\ sigCount >= 1) => Alive = {}

\* positions of the main() frame that lie inside start()
StartPcs ==
    {"kill_existing", "find_mediamtx", "popen_mediamtx", "store_mediamtx", "wait_port",
     "popen_rpicam", "store_rpicam", "popen_ffmpeg", "store_ffmpeg", "close_pipe",
     "grace", "set_running", "start_ret_true", "start_ret_false"}

\* positions of a frame that lie inside the body of stop()
StopPcs == {"stop_check", "stop_wait", "stop_kill"}

\* the frame is executing start(), its own teardown included
InStart(f) == f.fn = "main" /\ (f.pc \in StartPcs \/ (f.pc \in StopPcs /\ f.ret = "start"))

\* the frame is executing stop()
InStop(f) == f.pc \in StopPcs

\* C11: while a stop() is executing, no frame below it is inside start() or
\* inside another stop()
C11_NoOverlappingStartStop ==
    ~exited =>
        \A n \in 1..Len(stack) : InStop(stack[n]) =>
            \A m \in 1..(n - 1) : ~InStart(stack[m]) /\ ~InStop(stack[m])

\* C12: no error raised while signaling, waiting on or force-killing a child
\* leaves stop(): the call goes on to the remaining entries of its list
C12_StopSwallowsErrors == \A n \in 1..Len(stack) : stack[n].pc # "stop_raised"

\* the request e was sent to a child
InLog(e) == \E i \in 1..Len(log) : log[i] = e

\* C13: once a stop() has returned, every child held in a handle has exited
\* and running is False
C13_StoppedMeansAllExited ==
    stopsReturned >= 1 =>
        /\ \A p \in Procs : handle[p] => proc[p] = "exited"
        /\ ~running

\* a stop() has returned after the three cases: mediamtx had exited before its
\* turn, rpicam-vid exited after its terminate request, ffmpeg was force-killed
C13_Witness ==
    /\ stopsReturned = 1
    /\ \A p \in Procs : handle[p] /\ proc[p] = "exited"
    /\ InLog(<<"kill", "ffmpeg">>)
    /\ InLog(<<"terminate", "rpicam">>) /\ ~InLog(<<"kill", "rpicam">>)
    /\ ~InLog(<<"terminate", "mediamtx">>)

\* C14: a stop() that has begun comes to its end (or the program exits through
\* a signal handler's own stop()), also when children ignore the terminate
\* request, and one call sends at most three terminate requests
C14_StopTerminates ==
    /\ [](\A n \in 1..Len(stack) : Len(stack[n].sent) <= 3 /\ stack[n].k <= 4)
    /\ (~exited /\ Top.pc \in (StopPcs \cup {"stop_entry"}))
          ~> (exited \/ Top.pc \notin (StopPcs \cup {"stop_entry"}))

\* a stop() has returned after all three children ignored the terminate
\* request and were force-killed
C14_Witness ==
    /\ stopsReturned >= 1
    /\ \A p \in Procs : InLog(<<"terminate", p>>) /\ InLog(<<"kill", p>>)

\* the candidates that exist and are executable
ExecCandidates == {c \in 1..4 : fsys[c] = "exec"}

\* _find_mediamtx has returned
Searched == stack[1].pc \notin {"kill_existing", "find_mediamtx"}

\* C15: discovery returns the first executable candidate in list order, runs
\* `which` only when no candidate matches, and when nothing matches start()
\* fails without spawning a child
C15_DiscoveryFirstMatch ==
    IF Searched
    THEN /\ found = IF ExecCandidates # {}
                   THEN CHOOSE c \in ExecCandidates : \A d \in ExecCandidates : c <= d
                   ELSE IF onPath THEN WhichResult ELSE 0
         /\ whichRan <=> ExecCandidates = {}
         /\ found = 0 =>
               /\ \A p \in Procs : proc[p] = "none"
               /\ stack[1].pc \in {"start_ret_false", "exit1"}
               /\ startResult # "true"
    ELSE found = 0 /\ ~whichRan

\* the bundled file is not executable, /usr/bin and the home directory hold
\* executable copies and PATH has one too: /usr/bin's is returned, no `which`
C15_Witness ==
    /\ Searched
    /\ fsys = [c \in 1..4 |-> CASE c = 1 -> "noexec" [] c = 2 -> "missing" [] OTHER -> "exec"]
    /\ onPath
    /\ found = 3
    /\ ~whichRan
    /\ proc["mediamtx"] = "alive"

\* C16: every request goes to a child that is held in a handle and alive; a
\* kill goes only to the child this stop() call sent its last terminate to;
\* and the kill is reached only from a wait on a child that had not exited
C16_EscalationOrder ==
    [][/\ log' # log =>
            LET e == log'[Len(log')] IN
               /\ handle[e[2]] /\ proc[e[2]] = "alive"
               /\ e[1] = "kill" =>
                     /\ Top.pc = "stop_kill"
                     /\ Top.sent # <<>>
                     /\ Top.sent[Len(Top.sent)] = e[2]
       /\ (Len(stack') = Len(stack) /\ Top'.pc = "stop_kill" /\ Top.pc # "stop_kill") =>
               /\ Top.pc = "stop_wait"
               /\ proc[Top.sent[Len(Top.sent)]] = "alive"]_vars

\* a stop() has returned: ffmpeg was never spawned and rpicam-vid had exited,
\* neither got a request; mediamtx was terminated and then force-killed
C16_Witness ==
    /\ stopsReturned >= 1
    /\ proc["ffmpeg"] = "none" /\ proc["rpicam"] = "exited"
    /\ log = << <<"terminate", "mediamtx">>, <<"kill", "mediamtx">> >>

\* C17: rpicam-vid exists only after mediamtx was spawned and recorded and the
\* port check succeeded; ffmpeg exists only after rpicam-vid was spawned and
\* recorded
C17_StartupOrder ==
    /\ proc["rpicam"] # "none" =>
          proc["mediamtx"] # "none" /\ handle["mediamtx"] /\ portOk /\ ~portTimedOut
    /\ proc["ffmpeg"] # "none" =>
          proc["rpicam"] # "none" /\ handle["rpicam"] /\ portOk /\ ~portTimedOut

\* all three children have been spawned and start() is at its grace period
C17_Witness ==
    /\ Len(stack) = 1 /\ Top.pc = "grace"
    /\ \A p \in Procs : proc[p] = "alive" /\ handle[p]
    /\ portOk

\* C18: with ffmpeg spawned, the supervisor's reference to rpicam-vid's stdout
\* is open only while start() is between the ffmpeg spawn and the close, so it
\* is closed at the grace-period check and when start() returns; once closed
\* it is never open again
C18_PipeReleased ==
    /\ [](proc["ffmpeg"] # "none" /\ pipe # "closed" =>
             /\ stack[1].pc \in {"store_ffmpeg", "close_pipe"}
             /\ startResult = "none")
    /\ [][pipe = "closed" => pipe' = "closed"]_vars

\* start() has returned True with ffmpeg spawned and the pipe closed
C18_Witness ==
    /\ startResult = "true"
    /\ proc["ffmpeg"] # "none" /\ handle["ffmpeg"]
    /\ pipe = "closed"

\* C19: every child process that has been spawned is recorded in the handle
\* that stop() examines for it
C19_EverySpawnedChildTracked == \A p \in Procs : proc[p] # "none" => handle[p]

====
